---------------------------- MODULE Spec2Model ----------------------------
(***************************************************************************)
(* A model of the BGZIP data chunk source of                               *)
(* cpp/src/io/text/bgzip_data_chunk_source.cu: the source, the reader with *)
(* its two block groups (_prev_blocks, _curr_blocks), the host stream it   *)
(* parses and the device stream it issues decompressions and copies on.    *)
(*                                                                         *)
(* Sizes are scaled: blocks hold a few decompressed bytes and the default  *)
(* load size chunk_load_size is a few bytes instead of 1 << 24, so that    *)
(* group boundaries fall inside short files.  The header arithmetic (12    *)
(* fixed bytes, 4-byte subfield heads, 8-byte footer, 16-bit local         *)
(* offsets) keeps the values of the code.                                  *)
(***************************************************************************)
EXTENDS Integers, Sequences, FiniteSets, TLC

VARIABLES
  file,     \* the bytes behind _filename: a sequence of BGZIP blocks
  source,   \* bgzip_data_chunk_source: _virtual_begin, _virtual_end
  rd,       \* the bgzip_data_chunk_reader made by create_reader (or none yet)
  pos,      \* history: logical decompressed position of the reader's cursor
  out,      \* history: the chunks returned so far, concatenated, while no skip happened
  last,     \* history: the last public call, its argument and its result
  twin,     \* a second reader of the same source, with the calls made on both
  call      \* the call in progress when the loops are taken one step at a time

vars == <<file, source, rd, pos, out, last, twin, call>>

(***************************************************************************)
(* Bounds of the model.                                                    *)
(***************************************************************************)
\* the default load size, line 314 (1 << 24 in the code), scaled down
chunk_load_size == 2
\* get_next_chunk and skip_bytes are called with sizes 0..MaxReq or WholeReq
MaxReq == 3
\* a request no smaller than any file of the model: "everything at once"
WholeReq == 9
\* local offsets tried for virtual_begin and virtual_end
MaxLocal == 2
\* operations still pending on the device stream when new work is issued
MaxQueue == 2
\* calls made on each of two readers of one source
MaxCalls == 2

(***************************************************************************)
(* Program constants.                                                      *)
(***************************************************************************)
\* virtual offsets keep the low 16 bits as the local offset (& 0xFFFFu, >> 16)
LocalRange == 65536
\* uint16_t arithmetic of extra_offset
U16 == 65536
\* the fixed part of the header read by read_header
FixedHeader == 12
\* identifier bytes and uint16 length of one extra subfield
SubfieldHead == 4
\* the footer read by read_footer
FooterSize == 8
\* header + footer overhead in bgzip_header::data_size
Overhead == 20
\* the largest virtual offset of the model, standing for
\* std::numeric_limits<uint64_t>::max(): compressed end beyond every file,
\* local end 0xFFFF
VirtualMax == 2147483647

Min(a, b) == IF a <= b THEN a ELSE b
Max(a, b) == IF a >= b THEN a ELSE b

(***************************************************************************)
(* The file.  A block is its fixed header (magic), the declared length of  *)
(* the extra region, the extra subfields as they lie in the file, the      *)
(* compressed payload, and the footer's decompressed size.  ulen is the    *)
(* length of what the payload really inflates to.  start is the block's    *)
(* offset in the file and ubase the decompressed bytes of the blocks       *)
(* before it: both follow from the blocks before, PlaceBlocks sets them.   *)
(***************************************************************************)
RECURSIVE ExtraBytes(_)
ExtraBytes(extra) ==
  IF extra = <<>> THEN 0
  ELSE SubfieldHead + Head(extra).slen + ExtraBytes(Tail(extra))

\* bytes the block occupies in the file: the extra region has the declared
\* length, whatever its subfields say
PhysSize(b) == FixedHeader + b.xlen + b.data_size + FooterSize

\* the extra region of a well-formed block: foreign subfields with payloads of
\* the sizes `pre`, then the BC subfield holding block_size - 1
WellFormedExtra(pre, data) ==
  [i \in 1..(Len(pre) + 1) |->
     IF i <= Len(pre) THEN [id |-> "XX", slen |-> pre[i], val |-> 0]
     ELSE [id |-> "BC", slen |-> 2,
           val |-> FixedHeader + ExtraBytes([j \in 1..Len(pre) |-> [slen |-> pre[j]]])
                   + SubfieldHead + 2 + data + FooterSize - 1]]

\* a well-formed block: `data` payload bytes that inflate to ulen bytes, and a
\* footer that tells that size
WellFormed(pre, data, ulen) ==
  [magic     |-> TRUE,
   xlen      |-> ExtraBytes(WellFormedExtra(pre, data)),
   extra     |-> WellFormedExtra(pre, data),
   data_size |-> data,
   isize     |-> ulen,
   ulen      |-> ulen,
   start     |-> 0,
   ubase     |-> 0]

RECURSIVE PlaceBlocks(_, _, _)
\* the blocks one after the other in the file, from offset at
PlaceBlocks(blocks, at, ubase) ==
  IF blocks = <<>> THEN <<>>
  ELSE <<[Head(blocks) EXCEPT !.start = at, !.ubase = ubase]>>
       \o PlaceBlocks(Tail(blocks), at + PhysSize(Head(blocks)), ubase + Head(blocks).ulen)

\* the files of the model: multi-block streams with blocks that compress well
\* (payload shorter than content) and badly, an empty block, a leading foreign
\* subfield, and the empty end-of-file block that bgzip writes last
Files ==
  { PlaceBlocks(<< WellFormed(<<>>, 2, 3), WellFormed(<<1>>, 3, 2),
                   WellFormed(<<>>, 1, 0), WellFormed(<<>>, 2, 3) >>, 0, 0),
    PlaceBlocks(<< WellFormed(<<>>, 1, 2), WellFormed(<<>>, 3, 3),
                   WellFormed(<<>>, 2, 0) >>, 0, 0) }

\* the extra region of a well-formed block with foreign subfields of the sizes
\* `pre` before the BC subfield and of the sizes `post` behind it
ExtraAround(pre, post, data) ==
  [i \in 1..(Len(pre) + 1 + Len(post)) |->
     IF i <= Len(pre) THEN [id |-> "XX", slen |-> pre[i], val |-> 0]
     ELSE IF i = Len(pre) + 1
     THEN [id |-> "BC", slen |-> 2,
           val |-> FixedHeader + ExtraBytes([j \in 1..Len(pre) |-> [slen |-> pre[j]]])
                   + SubfieldHead + 2
                   + ExtraBytes([j \in 1..Len(post) |-> [slen |-> post[j]]])
                   + data + FooterSize - 1]
     ELSE [id |-> "XX", slen |-> post[i - Len(pre) - 1], val |-> 0]]

\* a well-formed block with that extra region
WellFormedAround(pre, post, data, ulen) ==
  [WellFormed(pre, data, ulen) EXCEPT
     !.xlen  = ExtraBytes(ExtraAround(pre, post, data)),
     !.extra = ExtraAround(pre, post, data)]

\* a file whose blocks have the BC subfield first, in the middle, last and
\* alone in the extra region
SubfieldFiles ==
  { PlaceBlocks(<< WellFormedAround(<<>>, <<1>>, 2, 3),
                   WellFormedAround(<<2>>, <<0, 1>>, 1, 2),
                   WellFormedAround(<<1>>, <<>>, 3, 2),
                   WellFormedAround(<<>>, <<>>, 1, 0) >>, 0, 0) }

\* a block whose header does not begin with the magic bytes
BadMagic(data, ulen) == [WellFormed(<<>>, data, ulen) EXCEPT !.magic = FALSE]

\* a block whose extra region of xlen bytes holds no BC subfield: foreign
\* subfields that declare payloads of the sizes slens, as a scan from the
\* start of the region meets them
NoSizeSubfield(slens, xlen, data, ulen) ==
  [magic     |-> TRUE,
   xlen      |-> xlen,
   extra     |-> [i \in 1..Len(slens) |-> [id |-> "XX", slen |-> slens[i], val |-> 0]],
   data_size |-> data,
   isize     |-> ulen,
   ulen      |-> ulen,
   start     |-> 0,
   ubase     |-> 0]

\* the malformed blocks of the model: a bad magic; an empty extra region; one
\* and two foreign subfields that fill the region; two bytes left behind a
\* foreign subfield; a foreign subfield that declares more than the region
\* holds; one that declares so much that the 16-bit extra_offset wraps
MalformedBlocks ==
  { BadMagic(2, 3),
    NoSizeSubfield(<<>>, 0, 2, 3),
    NoSizeSubfield(<<1>>, 5, 2, 3),
    NoSizeSubfield(<<1, 2>>, 11, 2, 3),
    NoSizeSubfield(<<1>>, 7, 2, 3),
    NoSizeSubfield(<<7>>, 6, 2, 3),
    NoSizeSubfield(<<U16 - 1>>, 8, 2, 3) }

\* files with a malformed block: first in the file, or behind well-formed ones
MalformedFiles ==
  { PlaceBlocks(<<b, WellFormed(<<>>, 1, 2)>>, 0, 0) : b \in MalformedBlocks }
  \cup { PlaceBlocks(<<WellFormed(<<>>, 2, 3), WellFormed(<<1>>, 1, 2), b>>, 0, 0) :
            b \in MalformedBlocks }

\* file offset of block k
BlockStart(f, k) == f[k].start

FileSize(f) == IF f = <<>> THEN 0 ELSE f[Len(f)].start + PhysSize(f[Len(f)])

\* decompressed bytes of the blocks before block k (k = Len(f) + 1: of the file)
UBase(f, k) ==
  IF k <= Len(f) THEN f[k].ubase
  ELSE IF f = <<>> THEN 0 ELSE f[Len(f)].ubase + f[Len(f)].ulen

\* what block k inflates to: every byte of a file is distinct, byte number p of
\* the decompressed file has value p
Content(f, k) == [i \in 1..f[k].ulen |-> UBase(f, k) + i]

\* the whole decompressed file
Decompressed(f) == [p \in 1..UBase(f, Len(f) + 1) |-> p]

\* the block that starts at file offset p, 0 when none does
BlockAt(f, p) ==
  IF \E k \in 1..Len(f) : BlockStart(f, k) = p
  THEN CHOOSE k \in 1..Len(f) : BlockStart(f, k) = p
  ELSE 0

DataStart(f, k) == BlockStart(f, k) + FixedHeader + f[k].xlen

\* the payload byte j of block k, as a value
PayloadByte(k, j) == k * 100 + j

\* the byte at file offset p, as far as the reader's payload reads care: a
\* payload byte, or 0 for a byte of a header or footer
ByteAt(f, p) ==
  IF \E k \in 1..Len(f) : p >= DataStart(f, k) /\ p < DataStart(f, k) + f[k].data_size
  THEN LET k == CHOOSE k \in 1..Len(f) :
                  p >= DataStart(f, k) /\ p < DataStart(f, k) + f[k].data_size
       IN PayloadByte(k, p - DataStart(f, k) + 1)
  ELSE 0

\* DEFLATE of the device backends (batched_decompress, gpuinflate): the span
\* that is exactly the payload of block k inflates to the content of block k,
\* cut or zero-filled to the output span; any other span gives no output
Inflate(f, span, outlen) ==
  LET hit == {k \in 1..Len(f) :
                span = [j \in 1..f[k].data_size |-> PayloadByte(k, j)]
                /\ f[k].data_size > 0}
  IN IF hit = {} THEN [i \in 1..outlen |-> 0]
     ELSE LET k == CHOOSE k \in hit : TRUE
          IN [i \in 1..outlen |-> IF i <= f[k].ulen THEN Content(f, k)[i] ELSE 0]

(***************************************************************************)
(* The host stream _data_stream: a read position and the eof bit.  The     *)
(* constructor sets exceptions(failbit): a read that runs past the end of  *)
(* the file throws, which ends the operation with status "io_error".       *)
(***************************************************************************)
\* _data_stream->peek(): sets eofbit when no byte is left
peek(f, s) == IF s.pos >= FileSize(f) THEN [s EXCEPT !.eof = TRUE] ELSE s

Header(status, block_size, extra_length, p) ==
  [status |-> status, block_size |-> block_size, extra_length |-> extra_length, pos |-> p]

\* bgzip_header::data_size
data_size(header) == header.block_size - header.extra_length - Overhead

RECURSIVE scan_extra(_, _, _, _, _)

\* one subfield under the loop of read_header without the seekg of line 107
scan_subfield_no_seek(f, b, i, extra_offset, p, sf) ==
  IF sf.id = "BC"
  THEN IF sf.slen # 2
       THEN Header("format_error", 0, b.xlen, p)
       ELSE IF p + SubfieldHead + 2 > FileSize(f)
       THEN Header("io_error", 0, b.xlen, p)
       ELSE Header("ok", sf.val + 1, b.xlen, p + SubfieldHead + 2)
  ELSE scan_extra(f, b, i + 1,
                  (((extra_offset + SubfieldHead) % U16) + sf.slen) % U16,
                  p + SubfieldHead + sf.slen)

\* one subfield sf of the file under the subfield loop of read_header
scan_subfield(f, b, i, extra_offset, p, sf) ==
  IF sf.id = "BC"
  THEN IF sf.slen # 2
       THEN Header("format_error", 0, b.xlen, p)    \* malformed BGZIP extra subfield
       ELSE IF p + SubfieldHead + 2 > FileSize(f)
       THEN Header("io_error", 0, b.xlen, p)
       ELSE Header("ok", sf.val + 1, b.xlen,
                   p + SubfieldHead + 2 + ((b.xlen - extra_offset) - 6))
  ELSE scan_extra(f, b, i + 1,
                  (((extra_offset + SubfieldHead) % U16) + sf.slen) % U16,
                  p + SubfieldHead + sf.slen)

\* the subfield loop of read_header: b is the block whose header lies under the
\* stream, i the next subfield of the file, p the stream position
scan_extra(f, b, i, extra_offset, p) ==
  IF ~(extra_offset < b.xlen)
  THEN Header("format_error", 0, b.xlen, p)       \* missing BGZIP size extra subfield
  ELSE IF b.xlen - extra_offset < 4
  THEN Header("format_error", 0, b.xlen, p)       \* invalid extra field length
  ELSE IF p + SubfieldHead > FileSize(f)
  THEN Header("io_error", 0, b.xlen, p)
  ELSE IF i > Len(b.extra)
  THEN Header("garbage", 0, b.xlen, p)     \* the read left the subfields of the file
  ELSE scan_subfield(f, b, i, extra_offset, p, b.extra[i])

\* read_header at stream position p
read_header(f, p) ==
  IF p + FixedHeader > FileSize(f) THEN Header("io_error", 0, 0, p)
  ELSE IF BlockAt(f, p) = 0
  THEN Header("format_error", 0, 0, p + FixedHeader)    \* malformed BGZIP header
  ELSE IF ~f[BlockAt(f, p)].magic
  THEN Header("format_error", 0, 0, p + FixedHeader)    \* malformed BGZIP header
  ELSE scan_extra(f, f[BlockAt(f, p)], 1, 0, p + FixedHeader)

Footer(status, decompressed_size, p) ==
  [status |-> status, decompressed_size |-> decompressed_size, pos |-> p]

\* read_footer at stream position p: the footer of the block that ends at p + 8
read_footer(f, p) ==
  IF p + FooterSize > FileSize(f) THEN Footer("io_error", 0, p)
  ELSE IF p + FooterSize = FileSize(f)
  THEN Footer("ok", f[Len(f)].isize, p + FooterSize)
  ELSE IF BlockAt(f, p + FooterSize) = 0
  THEN Footer("garbage", 0, p + FooterSize)
  ELSE Footer("ok", f[BlockAt(f, p + FooterSize) - 1].isize, p + FooterSize)

(***************************************************************************)
(* decompression_blocks: one block group.  id names the group's event and  *)
(* buffers, which travel with the group through std::swap.  event is the   *)
(* number of operations of the device stream that the last                 *)
(* cudaEventRecord on the group's event still waits for (0: complete).     *)
(* backend_calls counts the decompressions issued since the last reset.    *)
(***************************************************************************)
Last(s) == s[Len(s)]

decompression_blocks(id) ==
  [id |-> id,
   event |-> 0,
   h_compressed_blocks |-> <<>>,
   h_compressed_offsets |-> <<0>>,
   h_decompressed_offsets |-> <<0>>,
   d_compressed_blocks |-> <<>>,
   d_decompressed_blocks |-> <<>>,
   d_compressed_offsets |-> <<>>,
   d_decompressed_offsets |-> <<>>,
   max_decompressed_size |-> 0,
   available_decompressed_size |-> 0,
   read_pos |-> 0,
   is_decompressed |-> FALSE,
   backend_calls |-> 0]

num_blocks(b) == Len(b.h_compressed_offsets) - 1
compressed_size(b) == Last(b.h_compressed_offsets)
decompressed_size(b) == Last(b.h_decompressed_offsets)
remaining_size(b) == b.available_decompressed_size - b.read_pos

\* one operation issued on the device stream, on the buffers of group id
DeviceOp(id, op) == [grp |-> id, op |-> op]

\* the block of a group whose decompressed span holds byte i
SpanOf(d_off, i) == CHOOSE j \in 1..(Len(d_off) - 1) : d_off[j] < i /\ i <= d_off[j + 1]

\* what the backend writes for block j of a group: the compressed span cut
\* from the device buffer by the offsets (bgzip_nvcomp_transform_functor),
\* inflated into the decompressed span
InflateBlock(f, d_blocks, c_off, d_off, j) ==
  Inflate(f, SubSeq(d_blocks, c_off[j] + 1, c_off[j + 1]), d_off[j + 1] - d_off[j])

\* the decompressed device buffer of a group after the batched decompression
InflateAll(f, d_blocks, c_off, d_off) ==
  [i \in 1..Last(d_off) |->
     InflateBlock(f, d_blocks, c_off, d_off, SpanOf(d_off, i))[i - d_off[SpanOf(d_off, i)]]]

\* the body of decompression_blocks::decompress after the is_decompressed
\* check: the host-to-device copies, the spans and the backend call, issued on
\* the device stream q
decompress_issue(f, b) ==
  [b EXCEPT
     !.d_compressed_blocks = b.h_compressed_blocks,
     !.d_compressed_offsets = b.h_compressed_offsets,
     !.d_decompressed_offsets = b.h_decompressed_offsets,
     !.d_decompressed_blocks =
         InflateAll(f, b.h_compressed_blocks, b.h_compressed_offsets,
                    b.h_decompressed_offsets),
     !.backend_calls = IF decompressed_size(b) > 0 THEN @ + 1 ELSE @,
     !.is_decompressed = TRUE]

\* decompression_blocks::reset that clears the buffers and tables and leaves
\* read_pos and is_decompressed as they are
reset_buffers_only(b) ==
  [b EXCEPT
     !.h_compressed_blocks = <<>>,
     !.h_compressed_offsets = <<0>>,
     !.h_decompressed_offsets = <<0>>,
     !.d_compressed_blocks = <<>>,
     !.d_decompressed_blocks = <<>>,
     !.d_compressed_offsets = <<>>,
     !.d_decompressed_offsets = <<>>,
     !.max_decompressed_size = 0,
     !.available_decompressed_size = 0]

\* decompression_blocks::reset
reset(b) ==
  [b EXCEPT
     !.h_compressed_blocks = <<>>,
     !.h_compressed_offsets = <<0>>,
     !.h_decompressed_offsets = <<0>>,
     !.d_compressed_blocks = <<>>,
     !.d_decompressed_blocks = <<>>,
     !.d_compressed_offsets = <<>>,
     !.d_decompressed_offsets = <<>>,
     !.max_decompressed_size = 0,
     !.available_decompressed_size = 0,
     !.read_pos = 0,
     !.is_decompressed = FALSE,
     !.backend_calls = 0]

\* decompression_blocks::read_block: header.data_size() bytes read from stream
\* position p to h_compressed_blocks.data() + compressed_size()
read_block(f, b, header, p) ==
  [b EXCEPT !.h_compressed_blocks =
     [i \in 1..(Len(b.h_compressed_blocks) + data_size(header)) |->
        IF compressed_size(b) < i /\ i <= compressed_size(b) + data_size(header)
        THEN ByteAt(f, p + (i - compressed_size(b)) - 1)
        ELSE IF i <= Len(b.h_compressed_blocks) THEN b.h_compressed_blocks[i] ELSE 0]]

\* decompression_blocks::add_block_offsets
add_block_offsets(b, header, footer) ==
  [b EXCEPT
     !.max_decompressed_size = Max(footer.decompressed_size, @),
     !.h_compressed_offsets = Append(@, compressed_size(b) + data_size(header)),
     !.h_decompressed_offsets = Append(@, decompressed_size(b) + footer.decompressed_size)]

(***************************************************************************)
(* bgzip_data_chunk_reader.  status is "ok" until an operation throws; a   *)
(* step after a throw does nothing.  stream is the device stream the       *)
(* reader is driven with (one device execution stream): the operations     *)
(* issued and not yet completed, oldest first.  Device buffers and         *)
(* returned chunks hold the values they have once the operations issued so *)
(* far completed.  raced and waited are history: a group was reset while   *)
(* an operation on its buffers was pending; a cudaEventSynchronize had to  *)
(* wait.                                                                   *)
(***************************************************************************)
Drop(q, n) == SubSeq(q, n + 1, Len(q))

\* the device completed n operations: events waiting for them come closer
Completed(r, n) ==
  [r EXCEPT !.stream = Drop(@, n),
            !._curr_blocks.event = Max(@ - n, 0),
            !._prev_blocks.event = Max(@ - n, 0)]

\* cudaEventSynchronize(_curr_blocks.event): the host blocks until the device
\* has completed everything the event waits for
cudaEventSynchronize(r) ==
  [Completed(r, r._curr_blocks.event) EXCEPT !.waited = @ \/ r._curr_blocks.event > 0]

\* cudaEventRecord(group.event, stream): the event completes after all
\* operations issued on the stream so far
cudaEventRecord(r, g) == [r EXCEPT ![g].event = Len(r.stream)]

\* an asynchronous operation on the buffers of group g, issued on the stream
Issue(r, g, op) == [r EXCEPT !.stream = Append(@, DeviceOp(r[g].id, op))]

Pending(q, id) == \E i \in 1..Len(q) : q[i].grp = id

Throw(r, status) == [r EXCEPT !.status = status]

\* a decompress without the is_decompressed check of line 187
decompress_always(f, r, g) ==
  Issue([r EXCEPT ![g] = decompress_issue(f, @)], g, "decompress")

\* group g of the reader: _curr_blocks.decompress(stream)
decompress(f, r, g) ==
  IF r[g].is_decompressed THEN r
  ELSE Issue([r EXCEPT ![g] = decompress_issue(f, @)], g, "decompress")

\* consume_bytes without the CUDF_EXPECTS of line 277
consume_bytes_unchecked(r, g, size) ==
  IF r.status # "ok" THEN r ELSE [r EXCEPT ![g].read_pos = @ + size]

\* group g of the reader: consume_bytes(size), with its CUDF_EXPECTS
consume_bytes(r, g, size) ==
  IF r.status # "ok" THEN r
  ELSE IF size <= remaining_size(r[g]) THEN [r EXCEPT ![g].read_pos = @ + size]
  ELSE Throw(r, "bounds_error")                       \* out of bounds

RECURSIVE load_blocks(_, _, _)

\* lines 301-310 with the block at _compressed_end counted in full
load_counted_in_full(f, r, header, footer, requested_size) ==
  IF r._compressed_pos = r._compressed_end
  THEN [r EXCEPT !._curr_blocks.available_decompressed_size =
                    @ + footer.decompressed_size,
                 !._compressed_pos = @ + header.block_size]
  ELSE load_blocks(f,
         [r EXCEPT !._curr_blocks.available_decompressed_size =
                      @ + footer.decompressed_size,
                   !._compressed_pos = @ + header.block_size],
         requested_size)

\* read_next_compressed_chunk, lines 301-310: the block is counted up to
\* _local_end when it starts at _compressed_end, and the loop ends there
load_counted(f, r, header, footer, requested_size) ==
  IF r._compressed_pos = r._compressed_end
  THEN [r EXCEPT !._curr_blocks.available_decompressed_size = @ + r._local_end,
                 !._compressed_pos = @ + header.block_size]
  ELSE load_blocks(f,
         [r EXCEPT !._curr_blocks.available_decompressed_size =
                      @ + footer.decompressed_size,
                   !._compressed_pos = @ + header.block_size],
         requested_size)

\* lines 299-300 with the block at _compressed_end entered into the offsets
\* with _local_end bytes only
load_footer_cut(f, r, header, footer, requested_size) ==
  IF footer.status # "ok"
  THEN Throw([r EXCEPT !._data_stream.pos = footer.pos], footer.status)
  ELSE load_counted(f,
         [r EXCEPT !._data_stream.pos = footer.pos,
                   !._curr_blocks =
                      add_block_offsets(@, header,
                        IF r._compressed_pos = r._compressed_end
                        THEN [footer EXCEPT !.decompressed_size = Min(@, r._local_end)]
                        ELSE footer)],
         header, footer, requested_size)

\* read_next_compressed_chunk, lines 299-300: the footer and add_block_offsets
load_footer(f, r, header, footer, requested_size) ==
  IF footer.status # "ok"
  THEN Throw([r EXCEPT !._data_stream.pos = footer.pos], footer.status)
  ELSE load_counted(f,
         [r EXCEPT !._data_stream.pos = footer.pos,
                   !._curr_blocks = add_block_offsets(@, header, footer)],
         header, footer, requested_size)

\* read_next_compressed_chunk, lines 297-299: the header read, then read_block
load_header(f, r, header, requested_size) ==
  IF header.status # "ok"
  THEN Throw([r EXCEPT !._data_stream.pos = header.pos], header.status)
  ELSE IF data_size(header) < 0
  THEN Throw([r EXCEPT !._data_stream.pos = header.pos], "garbage")
  ELSE IF header.pos + data_size(header) > FileSize(f)
  THEN Throw([r EXCEPT !._data_stream.pos = header.pos], "io_error")
  ELSE load_footer(f,
         [r EXCEPT !._curr_blocks = read_block(f, @, header, header.pos)],
         header, read_footer(f, header.pos + data_size(header)), requested_size)

\* line 296 without the comparison of _compressed_pos with _compressed_end
load_peeked_unbounded(f, r, requested_size) ==
  IF r._data_stream.eof THEN r
  ELSE load_header(f, r, read_header(f, r._data_stream.pos), requested_size)

\* read_next_compressed_chunk, lines 296-297: after the peek
load_peeked(f, r, requested_size) ==
  IF r._data_stream.eof \/ r._compressed_pos > r._compressed_end THEN r
  ELSE load_header(f, r, read_header(f, r._data_stream.pos), requested_size)

\* the while loop with <= for < in the condition of line 291
load_blocks_one_more(f, r, requested_size) ==
  IF ~(decompressed_size(r._curr_blocks) <= requested_size) THEN r
  ELSE IF r._data_stream.eof THEN r
  ELSE load_peeked(f, [r EXCEPT !._data_stream = peek(f, @)], requested_size)

\* the while loop of read_next_compressed_chunk, lines 291-311
load_blocks(f, r, requested_size) ==
  IF ~(decompressed_size(r._curr_blocks) < requested_size) THEN r
  ELSE IF r._data_stream.eof THEN r
  ELSE load_peeked(f, [r EXCEPT !._data_stream = peek(f, @)], requested_size)

\* std::swap(_curr_blocks, _prev_blocks)
swap_blocks(r) ==
  [r EXCEPT !._curr_blocks = r._prev_blocks, !._prev_blocks = r._curr_blocks]

\* lines 285-288 without the cudaEventSynchronize
sync_blocks_no_wait(r) == r

\* lines 285-288: wait for the event of a group that was decompressed
sync_blocks(r) == IF r._curr_blocks.is_decompressed THEN cudaEventSynchronize(r) ELSE r

\* _curr_blocks.reset()
reset_blocks(r) ==
  [r EXCEPT !._curr_blocks = reset(@),
            !.raced = @ \/ Pending(r.stream, r._curr_blocks.id)]

\* read_next_compressed_chunk
read_next_compressed_chunk(f, r, requested_size) ==
  load_blocks(f, reset_blocks(sync_blocks(swap_blocks(r))), requested_size)

\* the members of a reader that is handed the stream of the reader made
\* before it: the seekg of line 330 starts where that reader left the stream
reader_members_shared_stream(virtual_begin, virtual_end) ==
  [status |-> "ok",
   _data_stream |->
      [pos |-> (IF rd.status = "ok" THEN rd._data_stream.pos ELSE 0)
               + virtual_begin \div LocalRange,
       eof |-> FALSE],
   _prev_blocks |-> decompression_blocks(1),
   _curr_blocks |-> decompression_blocks(2),
   _local_end |-> virtual_end % LocalRange,
   _compressed_pos |-> virtual_begin \div LocalRange,
   _compressed_end |-> virtual_end \div LocalRange,
   stream |-> <<>>,
   raced |-> FALSE,
   waited |-> FALSE]

\* the members as the constructor initializes them, the stream after the seekg
reader_members(virtual_begin, virtual_end) ==
  [status |-> "ok",
   _data_stream |-> [pos |-> virtual_begin \div LocalRange, eof |-> FALSE],
   _prev_blocks |-> decompression_blocks(1),
   _curr_blocks |-> decompression_blocks(2),
   _local_end |-> virtual_end % LocalRange,
   _compressed_pos |-> virtual_begin \div LocalRange,
   _compressed_end |-> virtual_end \div LocalRange,
   stream |-> <<>>,
   raced |-> FALSE,
   waited |-> FALSE]

\* the constructor, lines 333-340: the seek to the local offset
seek_local(r, local_pos) ==
  IF r.status # "ok" THEN r
  ELSE IF ~(local_pos > 0) THEN r
  ELSE IF ~(Len(r._curr_blocks.h_compressed_offsets) > 1)
  THEN Throw(r, "bounds_error")      \* local part of virtual offset is out of bounds
  ELSE IF ~(local_pos < r._curr_blocks.h_compressed_offsets[2])
  THEN Throw(r, "bounds_error")      \* local part of virtual offset is out of bounds
  ELSE consume_bytes(r, "_curr_blocks", local_pos)

\* the constructor
bgzip_data_chunk_reader(f, virtual_begin, virtual_end) ==
  seek_local(read_next_compressed_chunk(f, reader_members(virtual_begin, virtual_end),
                                        chunk_load_size),
             virtual_begin % LocalRange)

\* lines 355-356 without the std::min
skip_rest_unclamped(r, read_size) == consume_bytes(r, "_curr_blocks", read_size)

\* skip_bytes, lines 355-356
skip_rest(r, read_size) ==
  consume_bytes(r, "_curr_blocks", Min(read_size, remaining_size(r._curr_blocks)))

RECURSIVE skip_loop(_, _, _)

\* skip_bytes, lines 349-353: the checks that end the loop after a reload
skip_reloaded(f, r, read_size) ==
  IF r.status # "ok" THEN r
  ELSE IF r._data_stream.eof THEN skip_rest(r, read_size)
  ELSE IF peek(f, r._data_stream).eof \/ r._compressed_pos > r._compressed_end
  THEN skip_rest([r EXCEPT !._data_stream = peek(f, @)], read_size)
  ELSE skip_loop(f, [r EXCEPT !._data_stream = peek(f, @)], read_size)

\* the while loop of skip_bytes without line 346
skip_loop_uncounted(f, r, read_size) ==
  IF ~(read_size > remaining_size(r._curr_blocks)) THEN skip_rest(r, read_size)
  ELSE skip_reloaded(f,
         read_next_compressed_chunk(f,
           consume_bytes(r, "_curr_blocks", remaining_size(r._curr_blocks)),
           chunk_load_size),
         read_size)

\* the while loop of skip_bytes, then its last two lines
skip_loop(f, r, read_size) ==
  IF ~(read_size > remaining_size(r._curr_blocks)) THEN skip_rest(r, read_size)
  ELSE skip_reloaded(f,
         read_next_compressed_chunk(f,
           consume_bytes(r, "_curr_blocks", remaining_size(r._curr_blocks)),
           chunk_load_size),
         read_size - remaining_size(r._curr_blocks))

\* skip_bytes
skip_bytes(f, r, read_size) == skip_loop(f, r, read_size)

\* cudaMemcpyAsync out of a device buffer: n bytes from offset `from`; a byte
\* beyond the buffer is indeterminate (-1)
DeviceRead(buf, from, n) ==
  [i \in 1..n |-> IF from + i <= Len(buf) THEN buf[from + i] ELSE -1]

Chunk(r, data) == [rd |-> r, data |-> data]

\* lines 365-375 with the copy taken from the start of the buffer
copy_single_from_start(r, read_size) ==
  Chunk(consume_bytes(cudaEventRecord(Issue(r, "_curr_blocks", "copy"), "_curr_blocks"),
                      "_curr_blocks", read_size),
        DeviceRead(r._curr_blocks.d_decompressed_blocks, 0, read_size))

\* get_next_chunk, lines 365-375: r after _curr_blocks.decompress
copy_single(r, read_size) ==
  Chunk(consume_bytes(cudaEventRecord(Issue(r, "_curr_blocks", "copy"), "_curr_blocks"),
                      "_curr_blocks", read_size),
        DeviceRead(r._curr_blocks.d_decompressed_blocks, r._curr_blocks.read_pos, read_size))

\* lines 381-398 without line 395
copy_cross_unadjusted(r, read_size) ==
  Chunk(consume_bytes(
          consume_bytes(
            cudaEventRecord(
              cudaEventRecord(
                Issue(Issue(r, "_prev_blocks", "copy"), "_curr_blocks", "copy"),
                "_curr_blocks"),
              "_prev_blocks"),
            "_prev_blocks", remaining_size(r._prev_blocks)),
          "_curr_blocks", read_size),
        DeviceRead(r._prev_blocks.d_decompressed_blocks, r._prev_blocks.read_pos,
                   remaining_size(r._prev_blocks))
        \o DeviceRead(r._curr_blocks.d_decompressed_blocks, r._curr_blocks.read_pos,
                      read_size - remaining_size(r._prev_blocks)))

\* lines 381-398 without the consume_bytes of line 396 on the previous group
copy_cross_prev_kept(r, read_size) ==
  Chunk(consume_bytes(
          cudaEventRecord(
            cudaEventRecord(
              Issue(Issue(r, "_prev_blocks", "copy"), "_curr_blocks", "copy"),
              "_curr_blocks"),
            "_prev_blocks"),
          "_curr_blocks", read_size - remaining_size(r._prev_blocks)),
        DeviceRead(r._prev_blocks.d_decompressed_blocks, r._prev_blocks.read_pos,
                   remaining_size(r._prev_blocks))
        \o DeviceRead(r._curr_blocks.d_decompressed_blocks, r._curr_blocks.read_pos,
                      read_size - remaining_size(r._prev_blocks)))

\* get_next_chunk, lines 381-398: r after both decompress calls, read_size
\* after the std::min of line 380
copy_cross(r, read_size) ==
  Chunk(consume_bytes(
          consume_bytes(
            cudaEventRecord(
              cudaEventRecord(
                Issue(Issue(r, "_prev_blocks", "copy"), "_curr_blocks", "copy"),
                "_curr_blocks"),
              "_prev_blocks"),
            "_prev_blocks", remaining_size(r._prev_blocks)),
          "_curr_blocks", read_size - remaining_size(r._prev_blocks)),
        DeviceRead(r._prev_blocks.d_decompressed_blocks, r._prev_blocks.read_pos,
                   remaining_size(r._prev_blocks))
        \o DeviceRead(r._curr_blocks.d_decompressed_blocks, r._curr_blocks.read_pos,
                      read_size - remaining_size(r._prev_blocks)))

\* the cross-group copy without the std::min of line 380
clamp_cross_unclamped(r, read_size) == copy_cross(r, read_size)

\* line 380 with the std::min taken over the current group alone
clamp_cross_curr_only(r, read_size) ==
  copy_cross(r, Min(read_size, remaining_size(r._curr_blocks)))

\* get_next_chunk, line 380: r after both decompress calls
clamp_cross(r, read_size) ==
  copy_cross(r, Min(read_size,
                    remaining_size(r._prev_blocks) + remaining_size(r._curr_blocks)))

\* get_next_chunk, lines 378-379: r after read_next_compressed_chunk
decompress_cross(f, r, read_size) ==
  IF r.status # "ok" THEN Chunk(r, <<>>)
  ELSE clamp_cross(decompress(f, decompress(f, r, "_prev_blocks"), "_curr_blocks"),
                   read_size)

\* get_next_chunk: the reader after the call and the chunk returned
get_next_chunk(f, r, read_size) ==
  IF read_size <= remaining_size(r._curr_blocks)
  THEN copy_single(decompress(f, r, "_curr_blocks"), read_size)
  ELSE decompress_cross(f, read_next_compressed_chunk(f, r, read_size), read_size)

(***************************************************************************)
(* The logical range of a source: decompressed positions of its virtual    *)
(* offsets (compressed offset of a block start, local offset inside the    *)
(* block).                                                                 *)
(***************************************************************************)
BlockStarts(f) == {BlockStart(f, k) : k \in 1..Len(f)}

ULen(f, c) == IF BlockAt(f, c) = 0 THEN 0 ELSE f[BlockAt(f, c)].ulen

\* decompressed position of the compressed offset c and local offset l
LogicalAt(f, c, l) ==
  IF BlockAt(f, c) = 0 THEN UBase(f, Len(f) + 1) ELSE UBase(f, BlockAt(f, c)) + l

\* decompressed position of the virtual offset v
Logical(f, v) == LogicalAt(f, v \div LocalRange, v % LocalRange)

RangeStart == Logical(file, source._virtual_begin)
RangeEnd   == Logical(file, source._virtual_end)

\* virtual_begin: any block start, or the end of the file, with any small
\* local offset (the constructor validates it)
Begins(f) ==
  {c * LocalRange + l : c \in BlockStarts(f) \cup {FileSize(f)}, l \in 0..MaxLocal}

\* virtual_end: the whole file (make_source_from_bgzip_file(filename)), or a
\* block start with a local offset inside that block, or the end of the file
Ends(f) ==
  {VirtualMax} \cup {FileSize(f) * LocalRange}
  \cup {c * LocalRange + l : c \in BlockStarts(f), l \in 0..MaxLocal}

ValidEnd(f, v) ==
  v = VirtualMax \/ v % LocalRange <= ULen(f, v \div LocalRange)

ReqSizes == (0..MaxReq) \cup {WholeReq}

RECURSIVE UnparsedFrom(_, _, _)
\* the bytes of the range in the blocks k, k + 1, ... that the reader r has not
\* parsed yet: a block that starts at _compressed_end counts up to _local_end,
\* a block that starts before counts in full
UnparsedFrom(f, r, k) ==
  IF k > Len(f) THEN 0
  ELSE (IF BlockStart(f, k) < r._compressed_pos \/ BlockStart(f, k) > r._compressed_end
        THEN 0
        ELSE IF BlockStart(f, k) = r._compressed_end THEN r._local_end
        ELSE f[k].ulen)
       + UnparsedFrom(f, r, k + 1)

\* the unread bytes of the range: in the previous group, in the current group
\* and in the blocks not parsed yet
Unread(f, r) ==
  remaining_size(r._prev_blocks) + remaining_size(r._curr_blocks) + UnparsedFrom(f, r, 1)

NoReader == [status |-> "none"]

\* what out holds once bytes were skipped: the chunks are no longer the range
Skipped == <<-2>>

\* the last public call: its name and argument, the chunk it returned, the
\* logical position and the unread bytes of the range before it, whether an
\* earlier (ended0) or any (ended) get_next_chunk asked for more than was left,
\* whether it met an already decompressed group (memo) and crossed groups
NoCall == [op |-> "none", req |-> 0, chunk |-> <<>>, pos0 |-> 0, unread0 |-> 0,
           ended0 |-> FALSE, ended |-> FALSE, memo |-> FALSE, cross |-> FALSE]

\* no second reader yet: the source as it was made, no reader, no call made on
\* the first reader (a) or repeated on the second (b)
NoTwin(src) == [source0 |-> src, rd |-> NoReader, a |-> <<>>, b |-> <<>>]

\* no call is in progress: op is the call made last, arg its argument, pc the
\* place in its code, read_size and requested_size the locals of skip_bytes and
\* read_next_compressed_chunk, parses the blocks parsed by the call, from the
\* reader as the call found it
NoStep == [op |-> "none", arg |-> 0, pc |-> "idle", read_size |-> 0,
           requested_size |-> 0, parses |-> 0, from |-> NoReader]

\* make_source_from_bgzip_file: the source keeps the file name and the range
bgzip_data_chunk_source(virtual_begin, virtual_end) ==
  [_virtual_begin |-> virtual_begin, _virtual_end |-> virtual_end]

Init ==
  /\ file \in Files
  /\ \E b \in Begins(file), e \in Ends(file) :
        /\ ValidEnd(file, e)
        /\ b <= e
        /\ source = bgzip_data_chunk_source(b, e)
  /\ rd = NoReader
  /\ pos = 0
  /\ out = <<>>
  /\ last = NoCall
  /\ twin = NoTwin(source)
  /\ call = NoStep

\* bgzip_data_chunk_source::create_reader
create_reader ==
  /\ rd.status = "none"
  /\ rd' = bgzip_data_chunk_reader(file, source._virtual_begin, source._virtual_end)
  /\ pos' = RangeStart
  /\ last' = [NoCall EXCEPT !.op = "create_reader",
                            !.req = source._virtual_begin % LocalRange]
  /\ UNCHANGED <<file, source, call, out, twin>>

\* get_next_chunk(n, stream) returned c; the caller then waits for the stream
\* (sync) or goes on while the device still works
Returned(c, n, sync) ==
  /\ rd' = IF sync /\ c.rd.status = "ok" THEN Completed(c.rd, Len(c.rd.stream)) ELSE c.rd
  /\ pos' = pos + Len(c.data)
  /\ out' = IF out = Skipped THEN out ELSE out \o c.data
  /\ last' = [op |-> "get_next_chunk", req |-> n, chunk |-> c.data, pos0 |-> pos,
              unread0 |-> Unread(file, rd),
              ended0 |-> last.ended,
              ended |-> last.ended \/ n > Unread(file, rd),
              memo |-> /\ n <= remaining_size(rd._curr_blocks)
                       /\ rd._curr_blocks.is_decompressed,
              cross |-> ~(n <= remaining_size(rd._curr_blocks))]

\* a call of get_next_chunk by a caller that waits for the stream afterwards
GetNextChunk ==
  /\ rd.status = "ok"
  /\ \E n \in ReqSizes : Returned(get_next_chunk(file, rd, n), n, TRUE)
  /\ UNCHANGED <<file, source, call, twin>>

\* a call of get_next_chunk by a caller that does not wait
GetNextChunkAsync ==
  /\ rd.status = "ok"
  /\ Len(rd.stream) <= MaxQueue
  /\ \E n \in ReqSizes : Returned(get_next_chunk(file, rd, n), n, FALSE)
  /\ UNCHANGED <<file, source, call, twin>>

\* skip_bytes(n) returned: pos moves by the bytes that are no longer unread;
\* out stops recording once a skip was asked for
SkipReturned(n) ==
  /\ rd' = skip_bytes(file, rd, n)
  /\ pos' = IF rd'.status = "ok" THEN pos + (Unread(file, rd) - Unread(file, rd'))
            ELSE pos
  /\ out' = IF n > 0 THEN Skipped ELSE out
  /\ last' = [NoCall EXCEPT !.op = "skip_bytes", !.req = n, !.pos0 = pos,
                            !.unread0 = Unread(file, rd),
                            !.ended0 = last.ended, !.ended = last.ended]

\* a call of skip_bytes(n)
SkipBytes ==
  /\ rd.status = "ok"
  /\ \E n \in ReqSizes : SkipReturned(n)
  /\ UNCHANGED <<file, source, call, twin>>

\* the device completes the oldest operation of the stream
DeviceComplete ==
  /\ rd.status = "ok"
  /\ Len(rd.stream) > 0
  /\ rd' = Completed(rd, 1)
  /\ UNCHANGED <<file, source, call, pos, out, last, twin>>

\* the reader driven by a caller that waits for the stream after each chunk
Next == create_reader \/ GetNextChunk \/ SkipBytes

Spec == Init /\ [][Next]_vars

\* the same for the ranges that begin at the start of a block.  A local begin
\* offset l adds no reader state to these: the constructor consumes l bytes of
\* the first group or throws, and skip_bytes(l) on the reader of the range
\* that begins at the block start consumes the same l bytes.
InitBlockBegin == Init /\ source._virtual_begin % LocalRange = 0

SpecBlockBegin == InitBlockBegin /\ [][Next]_vars

\* the reader over every range that begins at the start of a block, with any
\* virtual_end: the local end offset may lie beyond the decompressed size of
\* the block that starts at the compressed end offset (nothing in the
\* factories or the constructor looks at it)
InitAnyEnd ==
  /\ file \in Files
  /\ \E b \in Begins(file), e \in Ends(file) :
        /\ b <= e
        /\ b % LocalRange = 0
        /\ source = bgzip_data_chunk_source(b, e)
  /\ rd = NoReader
  /\ pos = 0
  /\ out = <<>>
  /\ last = NoCall
  /\ twin = NoTwin(source)
  /\ call = NoStep

SpecAnyEnd == InitAnyEnd /\ [][Next]_vars

\* the reader over the files with subfields around the BC subfield, for the
\* ranges that begin at the start of a block
InitSubfields ==
  /\ file \in SubfieldFiles
  /\ \E b \in Begins(file), e \in Ends(file) :
        /\ ValidEnd(file, e)
        /\ b <= e
        /\ b % LocalRange = 0
        /\ source = bgzip_data_chunk_source(b, e)
  /\ rd = NoReader
  /\ pos = 0
  /\ out = <<>>
  /\ last = NoCall
  /\ twin = NoTwin(source)
  /\ call = NoStep

SpecSubfields == InitSubfields /\ [][Next]_vars

(***************************************************************************)
(* The loops taken one pass at a time.  A call of the constructor, of      *)
(* get_next_chunk or of skip_bytes is in progress from its Call action to  *)
(* Return; each pass of the while loop of read_next_compressed_chunk and   *)
(* of skip_bytes is one step.                                              *)
(***************************************************************************)
\* read_next_compressed_chunk, lines 284-289: before the loop
reload_begin(r) == reset_blocks(sync_blocks(swap_blocks(r)))

\* lines 291-296: the loop goes into another pass and parses a block
load_continues(f, r, requested_size) ==
  /\ decompressed_size(r._curr_blocks) < requested_size
  /\ ~r._data_stream.eof
  /\ ~peek(f, r._data_stream).eof
  /\ ~(r._compressed_pos > r._compressed_end)

\* lines 297-298: what read_header and read_block throw for this header, "ok"
\* when they return
header_fault(f, header) ==
  IF header.status # "ok" THEN header.status
  ELSE IF data_size(header) < 0 THEN "garbage"
  ELSE IF header.pos + data_size(header) > FileSize(f) THEN "io_error"
  ELSE "ok"

\* lines 299-310, one pass: the reader r with the block of this header and
\* footer in its current group, which is `blocks` after read_block and
\* add_block_offsets
load_one(r, header, footer, blocks) ==
  [r EXCEPT !._data_stream.pos = footer.pos,
            !._curr_blocks =
               [blocks EXCEPT !.available_decompressed_size =
                  @ + IF r._compressed_pos = r._compressed_end
                      THEN r._local_end
                      ELSE footer.decompressed_size],
            !._compressed_pos = @ + header.block_size]

\* where a pass that parsed a block goes: out of the call when it threw, out
\* of the loop by the break of line 306, else to the loop condition
after_load(r0, r) ==
  IF r.status # "ok" THEN "done"
  ELSE IF r0._compressed_pos = r0._compressed_end THEN "loaded"
  ELSE "load"

\* skip_bytes, lines 349-353, breaking at the end of the stream only
skip_ended_eof_only(f, r) ==
  r._data_stream.eof \/ peek(f, r._data_stream).eof

\* skip_bytes, lines 349-353: the loop breaks after the reload
skip_ended(f, r) ==
  \/ r._data_stream.eof
  \/ peek(f, r._data_stream).eof
  \/ r._compressed_pos > r._compressed_end

\* the stream after lines 349-351: peeked unless it was at its end
skip_peeked(f, r) ==
  IF r._data_stream.eof THEN r ELSE [r EXCEPT !._data_stream = peek(f, @)]

\* a call of op(arg) on the reader `from`, at pc with the given locals
Step(op, arg, pc, requested_size, from) ==
  [op |-> op, arg |-> arg, pc |-> pc, read_size |-> arg,
   requested_size |-> requested_size, parses |-> 0, from |-> from]

\* the constructor is entered: members, seekg, and the call of
\* read_next_compressed_chunk(chunk_load_size) up to its loop
CallConstructor ==
  /\ call.pc = "idle" /\ rd.status = "none"
  /\ rd' = reload_begin(reader_members(source._virtual_begin, source._virtual_end))
  /\ call' = Step("create_reader", 0, "load", chunk_load_size, rd)
  /\ UNCHANGED <<file, source, pos, out, last, twin>>

\* get_next_chunk(n) is entered: served from the current group, or the call
\* of read_next_compressed_chunk(n) up to its loop
CallGetNextChunk ==
  /\ call.pc = "idle" /\ rd.status = "ok"
  /\ \E n \in ReqSizes :
        IF n <= remaining_size(rd._curr_blocks)
        THEN /\ rd' = get_next_chunk(file, rd, n).rd
             /\ call' = Step("get_next_chunk", n, "done", 0, rd)
        ELSE /\ rd' = reload_begin(rd)
             /\ call' = Step("get_next_chunk", n, "load", n, rd)
  /\ UNCHANGED <<file, source, pos, out, last, twin>>

\* skip_bytes(n) is entered
CallSkipBytes ==
  /\ call.pc = "idle" /\ rd.status = "ok"
  /\ \E n \in ReqSizes : call' = Step("skip_bytes", n, "skip", 0, rd)
  /\ UNCHANGED <<file, source, rd, pos, out, last, twin>>

\* one pass of the loop of read_next_compressed_chunk that parses a block, or
\* throws on it
ParseBlock ==
  /\ call.pc = "load"
  /\ load_continues(file, rd, call.requested_size)
  /\ \E header \in {read_header(file, rd._data_stream.pos)} :
        IF header_fault(file, header) # "ok"
        THEN rd' = Throw([rd EXCEPT !._data_stream.pos = header.pos],
                         header_fault(file, header))
        ELSE \E footer \in {read_footer(file, header.pos + data_size(header))} :
                IF footer.status # "ok"
                THEN rd' = Throw([rd EXCEPT !._data_stream.pos = footer.pos],
                                 footer.status)
                ELSE \E blocks \in {add_block_offsets(
                                       read_block(file, rd._curr_blocks, header, header.pos),
                                       header, footer)} :
                        rd' = load_one(rd, header, footer, blocks)
  /\ call' = [call EXCEPT !.pc = after_load(rd, rd'), !.parses = @ + 1]
  /\ UNCHANGED <<file, source, pos, out, last, twin>>

\* the loop of read_next_compressed_chunk ends: lines 291, 293 or 296
LoadExit ==
  /\ call.pc = "load"
  /\ ~load_continues(file, rd, call.requested_size)
  /\ rd' = load_blocks(file, rd, call.requested_size)
  /\ call' = [call EXCEPT !.pc = "loaded"]
  /\ UNCHANGED <<file, source, pos, out, last, twin>>

\* read_next_compressed_chunk returned to the constructor: lines 333-340
ConstructorLoaded ==
  /\ call.pc = "loaded" /\ call.op = "create_reader"
  /\ rd' = seek_local(rd, source._virtual_begin % LocalRange)
  /\ call' = [call EXCEPT !.pc = "done"]
  /\ UNCHANGED <<file, source, pos, out, last, twin>>

\* read_next_compressed_chunk returned to get_next_chunk: lines 378-398
GetLoaded ==
  /\ call.pc = "loaded" /\ call.op = "get_next_chunk"
  /\ \E prev \in {decompress(file, rd, "_prev_blocks")} :
        \E curr \in {decompress(file, prev, "_curr_blocks")} :
           rd' = clamp_cross(curr, call.read_size).rd
  /\ call' = [call EXCEPT !.pc = "done"]
  /\ UNCHANGED <<file, source, pos, out, last, twin>>

\* read_next_compressed_chunk returned to skip_bytes: lines 349-353, and
\* lines 355-356 when the loop breaks
SkipLoaded ==
  /\ call.pc = "loaded" /\ call.op = "skip_bytes"
  /\ IF skip_ended(file, rd)
     THEN /\ rd' = skip_rest(skip_peeked(file, rd), call.read_size)
          /\ call' = [call EXCEPT !.pc = "done"]
     ELSE /\ rd' = skip_peeked(file, rd)
          /\ call' = [call EXCEPT !.pc = "skip"]
  /\ UNCHANGED <<file, source, pos, out, last, twin>>

\* the loop condition of skip_bytes holds: lines 345-348 up to the loop of
\* read_next_compressed_chunk(chunk_load_size)
SkipReload ==
  /\ call.pc = "skip"
  /\ call.read_size > remaining_size(rd._curr_blocks)
  /\ rd' = reload_begin(consume_bytes(rd, "_curr_blocks",
                                      remaining_size(rd._curr_blocks)))
  /\ call' = [call EXCEPT !.pc = "load",
                          !.read_size = @ - remaining_size(rd._curr_blocks),
                          !.requested_size = chunk_load_size]
  /\ UNCHANGED <<file, source, pos, out, last, twin>>

\* the loop condition of skip_bytes fails: lines 355-356
SkipRest ==
  /\ call.pc = "skip"
  /\ ~(call.read_size > remaining_size(rd._curr_blocks))
  /\ rd' = skip_rest(rd, call.read_size)
  /\ call' = [call EXCEPT !.pc = "done"]
  /\ UNCHANGED <<file, source, pos, out, last, twin>>

\* the call returns or throws; the caller waits for the device stream
Return ==
  /\ call.pc = "done"
  /\ rd' = IF rd.status = "ok" THEN Completed(rd, Len(rd.stream)) ELSE rd
  /\ call' = [call EXCEPT !.pc = "idle"]
  /\ UNCHANGED <<file, source, pos, out, last, twin>>

\* the steps of a call in progress
Run ==
  \/ ParseBlock \/ LoadExit \/ ConstructorLoaded \/ GetLoaded \/ SkipLoaded
  \/ SkipReload \/ SkipRest \/ Return

NextSteps == CallConstructor \/ CallGetNextChunk \/ CallSkipBytes \/ Run

\* a call in progress runs on: the thread that made it executes it
SpecSteps == InitBlockBegin /\ [][NextSteps]_vars /\ WF_vars(Run)

\* the reader over the files with a malformed block, for the ranges that
\* begin at the start of a block and end at the start of a block or run to
\* the end of the file
InitMalformed ==
  /\ file \in MalformedFiles
  /\ \E b \in Begins(file), e \in Ends(file) :
        /\ b <= e
        /\ b % LocalRange = 0
        /\ e = VirtualMax \/ e % LocalRange = 0
        /\ source = bgzip_data_chunk_source(b, e)
  /\ rd = NoReader
  /\ pos = 0
  /\ out = <<>>
  /\ last = NoCall
  /\ twin = NoTwin(source)
  /\ call = NoStep

SpecMalformed == InitMalformed /\ [][Next]_vars

\* one call on a reader, as the two readers of a source record it
Call(op, n, chunk) == [op |-> op, req |-> n, chunk |-> chunk]

\* get_next_chunk on the first reader, recorded
TwinGetNextChunk ==
  /\ rd.status = "ok"
  /\ Len(twin.a) < MaxCalls
  /\ \E n \in ReqSizes :
       /\ Returned(get_next_chunk(file, rd, n), n, TRUE)
       /\ twin' = [twin EXCEPT !.a = Append(@, Call("get_next_chunk", n,
                                                    get_next_chunk(file, rd, n).data))]
  /\ UNCHANGED <<file, source, call>>

\* skip_bytes on the first reader, recorded
TwinSkipBytes ==
  /\ rd.status = "ok"
  /\ Len(twin.a) < MaxCalls
  /\ \E n \in ReqSizes :
       /\ SkipReturned(n)
       /\ twin' = [twin EXCEPT !.a = Append(@, Call("skip_bytes", n, <<>>))]
  /\ UNCHANGED <<file, source, call>>

\* create_reader once more on the same source, at any time
TwinCreateReader ==
  /\ twin.rd.status = "none"
  /\ twin' = [twin EXCEPT !.rd = bgzip_data_chunk_reader(file, source._virtual_begin,
                                                         source._virtual_end)]
  /\ UNCHANGED <<file, source, call, rd, pos, out, last>>

\* the second reader after the call c on it, and what the call returned
TwinCalled(c) ==
  IF c.op = "get_next_chunk"
  THEN [twin EXCEPT
          !.rd = Completed(get_next_chunk(file, twin.rd, c.req).rd,
                           Len(get_next_chunk(file, twin.rd, c.req).rd.stream)),
          !.b = Append(@, Call(c.op, c.req, get_next_chunk(file, twin.rd, c.req).data))]
  ELSE [twin EXCEPT
          !.rd = skip_bytes(file, twin.rd, c.req),
          !.b = Append(@, Call(c.op, c.req, <<>>))]

\* the second reader is driven like the first: its next call is the call made
\* on the first reader at the same place of the sequence
TwinRepeat ==
  /\ twin.rd.status = "ok"
  /\ Len(twin.b) < Len(twin.a)
  /\ twin' = TwinCalled(twin.a[Len(twin.b) + 1])
  /\ UNCHANGED <<file, source, call, rd, pos, out, last>>

\* two readers of one source over the whole file or up to the second byte of
\* a block, the second created at any time and driven by the same calls as
\* the first, in any interleaving in which it is not ahead
InitTwin ==
  /\ Init
  /\ source._virtual_begin = 0
  /\ source._virtual_end % LocalRange \in {1, VirtualMax % LocalRange}

NextTwin ==
  create_reader \/ TwinGetNextChunk \/ TwinSkipBytes \/ TwinCreateReader \/ TwinRepeat

SpecTwin == InitTwin /\ [][NextTwin]_vars

\* the reader driven by a caller that does not wait: the device completes the
\* operations of the stream in its own time
InitAsync ==
  /\ InitBlockBegin
  /\ source._virtual_end = VirtualMax

NextAsync == create_reader \/ GetNextChunkAsync \/ SkipBytes \/ DeviceComplete

SpecAsync == InitAsync /\ [][NextAsync]_vars

(***************************************************************************)
(* Properties.                                                             *)
(***************************************************************************)
Groups == {"_prev_blocks", "_curr_blocks"}

\* the source of make_source_from_bgzip_file(filename): the whole file
WholeRange == source._virtual_begin = 0 /\ source._virtual_end = VirtualMax

\* the range ends at a block: at local offset _local_end of the block that
\* starts at _compressed_end
BoundedRange ==
  /\ source._virtual_end # VirtualMax
  /\ BlockAt(file, source._virtual_end \div LocalRange) # 0

\* the last call was a get_next_chunk
Got == last.op = "get_next_chunk"

\* C1: round trip.  Over the whole range of a file, whatever sizes
\* get_next_chunk is asked for, no call fails, the chunks returned so far
\* concatenate to the first bytes of the decompressed file, and once a call
\* that asked for something returned an empty chunk they concatenate to the
\* whole decompressed file.
C1_RoundTrip ==
  (WholeRange /\ rd.status # "none" /\ out # Skipped) =>
     /\ rd.status = "ok"
     /\ Len(out) <= Len(Decompressed(file))
     /\ out = SubSeq(Decompressed(file), 1, Len(out))
     /\ (Got /\ last.req > 0 /\ last.chunk = <<>>) => out = Decompressed(file)

\* the whole file was read by get_next_chunk calls, the last of them crossed
\* into an empty group and returned the empty chunk
C1_Witness ==
  /\ WholeRange
  /\ Got /\ last.req > 0 /\ last.chunk = <<>> /\ last.cross
  /\ out = Decompressed(file)
  /\ Len(out) > chunk_load_size

\* C2: a chunk is never longer than what was asked for, and it is shorter only
\* if fewer bytes than asked for were unread in the previous group, the
\* current group and the blocks of the range not parsed yet.
C2_ChunkSize ==
  Got =>
     /\ Len(last.chunk) <= last.req
     /\ Len(last.chunk) < last.req => last.unread0 < last.req

\* a call that returned a short chunk that is not empty
C2_Witness ==
  /\ Got
  /\ 0 < Len(last.chunk) /\ Len(last.chunk) < last.req
  /\ last.unread0 = Len(last.chunk)

\* C3: end of stream.  A get_next_chunk that asks for more than is unread in
\* the range returns all that is unread and does not fail; every
\* get_next_chunk after such a call returns the empty chunk and does not fail.
C3_EndOfStream ==
  Got =>
     /\ rd.status = "ok"
     /\ last.req > last.unread0 => Len(last.chunk) = last.unread0
     /\ last.ended0 => last.chunk = <<>>

\* a get_next_chunk for some bytes after the range had ended, in a range that
\* had bytes
C3_Witness ==
  /\ Got /\ last.ended0 /\ last.req > 0
  /\ rd.status = "ok"
  /\ last.chunk = <<>>
  /\ pos > RangeStart

\* C4: bounded range.  When the range ends at a local offset of a block, the
\* bytes returned and skipped never reach past that logical position and no
\* chunk holds a byte from behind it, while a decompressed group holds the
\* decompressed bytes of its blocks in full, the boundary block included.
C4_BoundedRange ==
  (BoundedRange /\ rd.status = "ok") =>
     /\ pos <= RangeEnd
     /\ \A i \in 1..Len(last.chunk) : 1 <= last.chunk[i] /\ last.chunk[i] <= RangeEnd
     /\ \A g \in Groups :
          rd[g].is_decompressed =>
             Len(rd[g].d_decompressed_blocks) = decompressed_size(rd[g])

\* the range ends inside a block, all of the range was returned, and the group
\* with the boundary block holds more decompressed bytes than it gives out
C4_Witness ==
  /\ BoundedRange /\ rd.status = "ok"
  /\ source._virtual_end % LocalRange > 0
  /\ Got /\ last.chunk # <<>>
  /\ pos = RangeEnd
  /\ \E g \in Groups :
       /\ rd[g].is_decompressed
       /\ Len(rd[g].d_decompressed_blocks) > rd[g].available_decompressed_size

\* the compressed offset and the local offset of virtual_begin
begin_block == source._virtual_begin \div LocalRange
local_begin == source._virtual_begin % LocalRange

\* the reader was just constructed
Constructed == last.op = "create_reader"

\* a reader of the same file from virtual_begin 0 on which skip_bytes was
\* called with the logical position of virtual_begin
SkippedToBegin ==
  skip_bytes(file, bgzip_data_chunk_reader(file, 0, source._virtual_end), RangeStart)

\* C5: virtual-offset addressing.  For virtual_begin at a local offset inside
\* the decompressed output of a block, the reader is constructed and
\* get_next_chunk returns, for every request size, the bytes that a reader
\* constructed at 0 returns after skip_bytes to the logical position of
\* virtual_begin.
C5_VirtualBegin ==
  (Constructed /\ BlockAt(file, begin_block) # 0
     /\ local_begin < ULen(file, begin_block)) =>
     /\ rd.status = "ok"
     /\ \A n \in ReqSizes :
          get_next_chunk(file, rd, n).data = get_next_chunk(file, SkippedToBegin, n).data

\* C6: the constructor checks a nonzero local begin offset against the
\* decompressed size of the first loaded block: within it, the reader is
\* constructed with local_begin bytes consumed; a bounds error is raised only
\* for a local_begin not within it, or when no block was loaded.
C6_LocalBegin ==
  (Constructed /\ local_begin > 0) =>
     /\ (BlockAt(file, begin_block) # 0 /\ local_begin < ULen(file, begin_block)) =>
           (rd.status = "ok" /\ rd._curr_blocks.read_pos = local_begin)
     /\ rd.status = "bounds_error" =>
           (BlockAt(file, begin_block) = 0 \/ local_begin >= ULen(file, begin_block))

\* get_next_chunk(n) returns the same bytes on the readers a and b
SameNext(a, b, n) ==
  /\ a.status = "ok" /\ b.status = "ok"
  /\ get_next_chunk(file, a, n).data = get_next_chunk(file, b, n).data

\* C7: from every state of a reader, skip_bytes(k) and then get_next_chunk(n)
\* returns the bytes that get_next_chunk(k) and then get_next_chunk(n)
\* returns, for all k and n.
C7_SkipIsRead ==
  rd.status = "ok" =>
     \A k \in ReqSizes :
        \A a \in {skip_bytes(file, rd, k)}, b \in {get_next_chunk(file, rd, k).rd} :
           \A n \in ReqSizes : SameNext(a, b, n)

\* a skip that loads two groups one after the other (the current group is
\* again the one it was, with later blocks), after which both readers return
\* the same bytes
C7_Witness ==
  /\ rd.status = "ok"
  /\ \E k, n \in 1..MaxReq :
       \E a \in {skip_bytes(file, rd, k)} :
          /\ a._curr_blocks.id = rd._curr_blocks.id
          /\ a._compressed_pos > rd._compressed_pos
          /\ SameNext(a, get_next_chunk(file, rd, k).rd, n)
          /\ Len(get_next_chunk(file, a, n).data) = n

\* C9: decompress at most once.  Between two resets of a group the backend is
\* called for it at most once, and decompress on a decompressed group changes
\* nothing: not the group, not the device stream.
C9_DecompressOnce ==
  rd.status = "ok" =>
     \A g \in Groups :
        /\ rd[g].backend_calls <= 1
        /\ rd[g].is_decompressed => decompress(file, rd, g) = rd

\* a get_next_chunk read from a group that an earlier call had decompressed
C9_Witness ==
  /\ rd.status = "ok"
  /\ Got /\ last.memo /\ last.chunk # <<>>
  /\ rd._curr_blocks.is_decompressed
  /\ rd._curr_blocks.backend_calls = 1

\* C10: ordering.  pos is the range start plus the sizes of the chunks
\* returned and the bytes skipped so far; a chunk holds the bytes at the
\* logical positions that follow pos as it was before the call, so it starts
\* at or behind the end of every earlier chunk and no position is served
\* twice.
C10_Ordering ==
  /\ Got => last.chunk = [i \in 1..Len(last.chunk) |-> last.pos0 + i]
  /\ Got => pos = last.pos0 + Len(last.chunk)
  /\ rd.status = "ok" => RangeStart <= pos /\ last.pos0 <= pos

\* a chunk returned after a skip that moved the reader, both behind the range
\* start
C10_Witness ==
  /\ Got /\ last.chunk # <<>>
  /\ out = Skipped
  /\ last.pos0 > RangeStart
  /\ last.chunk[1] = last.pos0 + 1

\* C8: no reset of a group under pending device work.  However the device's
\* completions interleave with the calls, no group was reset while an
\* operation on its buffers was pending, and every pending operation on a
\* group is one that the group's event, recorded after it, waits for.
C8_NoResetWhilePending ==
  rd.status = "ok" =>
     /\ ~rd.raced
     /\ \A g \in Groups :
          \A i \in 1..Len(rd.stream) :
             rd.stream[i].grp = rd[g].id => i <= rd[g].event

\* the host had to wait for the event of a group before it reset the group,
\* and the device still has work to do
C8_Witness ==
  /\ rd.status = "ok"
  /\ rd.waited /\ ~rd.raced
  /\ rd.stream # <<>>

\* the last call was a skip_bytes
SkippedBytes == last.op = "skip_bytes"

\* C11: a skip_bytes for more than is unread in the range does not fail, skips
\* exactly what was unread (nothing of the range is left), leaves the current
\* group with remaining_size() = 0, and a get_next_chunk after it returns the
\* empty chunk.
C11_SkipPastEnd ==
  (SkippedBytes /\ last.req > last.unread0) =>
     /\ rd.status = "ok"
     /\ pos = last.pos0 + last.unread0
     /\ Unread(file, rd) = 0
     /\ remaining_size(rd._curr_blocks) = 0
     /\ \A n \in ReqSizes :
          /\ get_next_chunk(file, rd, n).data = <<>>
          /\ get_next_chunk(file, rd, n).rd.status = "ok"

\* a skip_bytes for more than the unread bytes, which lay in the current group
\* and in blocks that the skip had to parse
C11_Witness ==
  /\ SkippedBytes /\ last.req > last.unread0
  /\ rd.status = "ok"
  /\ last.unread0 > chunk_load_size
  /\ pos = RangeEnd /\ pos > RangeStart

\* the header of the block b does not begin with the magic bytes, or its extra
\* region holds no subfield tagged 66, 67
Malformed(b) == ~b.magic \/ \A i \in 1..Len(b.extra) : b.extra[i].id # "BC"

\* the stream, which started at begin_block, went into a malformed block: its
\* header was parsed
ParsedMalformed ==
  /\ rd.status # "none"
  /\ \E k \in 1..Len(file) :
       /\ Malformed(file[k])
       /\ begin_block <= BlockStart(file, k)
       /\ BlockStart(file, k) < rd._data_stream.pos

\* C12: malformed input.  When the header of a malformed block (no magic, or
\* no block size subfield in the extra region) was parsed, the operation that
\* parsed it, the constructor, get_next_chunk or skip_bytes, ended with a
\* format error and returned no chunk.
C12_MalformedInput ==
  ParsedMalformed =>
     /\ rd.status = "format_error"
     /\ Got => last.chunk = <<>>

C14_ReadPosBounded ==
  rd.status # "none" =>
     \A g \in Groups :
        /\ 0 <= rd[g].read_pos
        /\ rd[g].read_pos <= rd[g].available_decompressed_size
        /\ rd.status = "ok" =>
              \A d \in 1..MaxReq :
                 \A c \in {consume_bytes(rd, g, remaining_size(rd[g]) + d)} :
                    /\ c.status = "bounds_error"
                    /\ c[g].read_pos = rd[g].read_pos

\* the constructor called consume_bytes with a local begin offset that is
\* smaller than h_compressed_offsets[1] and larger than remaining_size(): the
\* call threw and left read_pos at 0
C14_Witness ==
  /\ Constructed /\ rd.status = "bounds_error"
  /\ num_blocks(rd._curr_blocks) > 0
  /\ local_begin < rd._curr_blocks.h_compressed_offsets[2]
  /\ local_begin > remaining_size(rd._curr_blocks)
  /\ rd._curr_blocks.read_pos = 0

\* what a parsed block adds to available_decompressed_size: _local_end for the
\* block that starts at _compressed_end, its decompressed size for any other
Counted(r, b) == IF b.start = r._compressed_end THEN r._local_end ELSE b.isize

RECURSIVE CountedSum(_, _, _, _)
\* the same for the blocks from..to of the file
CountedSum(f, r, from, to) ==
  IF from > to THEN 0 ELSE Counted(r, f[from]) + CountedSum(f, r, from + 1, to)

\* the current group holds the blocks first..k of the file as
\* read_next_compressed_chunk enters them: each with its full decompressed
\* size in the offsets, counted by Counted, none behind the block at
\* _compressed_end
HoldsBlocks(f, r, first, k) ==
  /\ \A i \in first..k :
       r._curr_blocks.h_decompressed_offsets[i - first + 2]
         - r._curr_blocks.h_decompressed_offsets[i - first + 1] = f[i].isize
  /\ r._curr_blocks.available_decompressed_size = CountedSum(f, r, first, k)
  /\ \A i \in first..(k - 1) : f[i].start # r._compressed_end

\* C15: last block in range.  The blocks of the current group are the blocks
\* parsed last, up to _compressed_pos: the block that starts at
\* _compressed_end adds _local_end to available_decompressed_size and is the
\* last block of its group, whatever was requested; every other block adds its
\* decompressed size; every block is in the offsets with its full
\* decompressed size.
C15_LastBlock ==
  (rd.status = "ok" /\ num_blocks(rd._curr_blocks) > 0) =>
     \E k \in num_blocks(rd._curr_blocks)..Len(file) :
        /\ file[k].start + PhysSize(file[k]) = rd._compressed_pos
        /\ HoldsBlocks(file, rd, k - num_blocks(rd._curr_blocks) + 1, k)

\* a call of get_next_chunk that crossed into a new group parsed the block at
\* _compressed_end alone and stopped with less than was requested in the
\* group and more blocks in the file; the block counts less than its
\* decompressed size
C15_Witness ==
  /\ last.op = "get_next_chunk" /\ last.cross /\ rd.status = "ok"
  /\ num_blocks(rd._curr_blocks) = 1
  /\ BlockAt(file, rd._compressed_end) > 0
  /\ rd._compressed_pos =
        rd._compressed_end + PhysSize(file[BlockAt(file, rd._compressed_end)])
  /\ rd._compressed_pos < FileSize(file)
  /\ rd._curr_blocks.available_decompressed_size < decompressed_size(rd._curr_blocks)
  /\ decompressed_size(rd._curr_blocks) + decompressed_size(rd._prev_blocks) < last.req

\* the reader c.rd after a get_next_chunk that began on r and crossed into a
\* new group: the previous group is the old current group, drained, and the
\* current group is consumed by the chunk's size less the old remainder
DrainedAcross(r, c) ==
  c.rd.status = "ok" =>
     /\ c.rd._prev_blocks.available_decompressed_size =
           r._curr_blocks.available_decompressed_size
     /\ c.rd._prev_blocks.read_pos = c.rd._prev_blocks.available_decompressed_size
     /\ c.rd._curr_blocks.read_pos = Len(c.data) - remaining_size(r._curr_blocks)

\* C16: the previous group is drained.  After the constructor, get_next_chunk
\* and skip_bytes the previous group has read_pos =
\* available_decompressed_size; a get_next_chunk that crosses into a new group
\* drains the old group and consumes the size of the chunk less the old
\* group's remainder from the new one.
C16_PrevDrained ==
  rd.status = "ok" =>
     /\ rd._prev_blocks.read_pos = rd._prev_blocks.available_decompressed_size
     /\ \A n \in ReqSizes :
           n > remaining_size(rd._curr_blocks) =>
              DrainedAcross(rd, get_next_chunk(file, rd, n))

\* a get_next_chunk took the rest of one group and a part of the next
C16_Witness ==
  /\ last.op = "get_next_chunk" /\ last.cross /\ rd.status = "ok"
  /\ 0 < rd._curr_blocks.read_pos
  /\ rd._curr_blocks.read_pos < Len(last.chunk)
  /\ rd._curr_blocks.read_pos < rd._curr_blocks.available_decompressed_size
  /\ rd._prev_blocks.read_pos = rd._prev_blocks.available_decompressed_size


\* the group b holds the blocks k0, k0 + 1, ... of the file and nothing else:
\* their payload sizes and decompressed sizes in the offset tables, their
\* payloads in h_compressed_blocks
ParsedFrom(f, b, k0) ==
  \A j \in 1..num_blocks(b) :
     /\ b.h_compressed_offsets[j + 1] - b.h_compressed_offsets[j] = f[k0 + j - 1].data_size
     /\ b.h_decompressed_offsets[j + 1] - b.h_decompressed_offsets[j] = f[k0 + j - 1].isize
     /\ \A i \in 1..f[k0 + j - 1].data_size :
           b.h_compressed_blocks[b.h_compressed_offsets[j] + i] = PayloadByte(k0 + j - 1, i)

\* the group b as reset() leaves it, but for what the loop of
\* read_next_compressed_chunk enters afterwards
FreshGroup(b) ==
  /\ b.read_pos = 0
  /\ ~b.is_decompressed
  /\ b.d_compressed_blocks = <<>> /\ b.d_decompressed_blocks = <<>>
  /\ b.d_compressed_offsets = <<>> /\ b.d_decompressed_offsets = <<>>
  /\ b.h_compressed_offsets[1] = 0 /\ b.h_decompressed_offsets[1] = 0
  /\ Len(b.h_decompressed_offsets) = Len(b.h_compressed_offsets)
  /\ Len(b.h_compressed_blocks) = compressed_size(b)

\* c is the reader r after read_next_compressed_chunk returned
ReloadedFrom(f, r, c) ==
  c.status = "ok" =>
     /\ c._prev_blocks = r._curr_blocks
     /\ c._curr_blocks.id = r._prev_blocks.id
     /\ FreshGroup(c._curr_blocks)
     /\ \/ /\ num_blocks(c._curr_blocks) = 0
           /\ c._curr_blocks.h_compressed_offsets = <<0>>
           /\ c._curr_blocks.h_decompressed_offsets = <<0>>
           /\ c._compressed_pos = r._compressed_pos
        \/ /\ num_blocks(c._curr_blocks) > 0
           /\ BlockAt(f, r._compressed_pos) > 0
           /\ BlockAt(f, r._compressed_pos) + num_blocks(c._curr_blocks) - 1 <= Len(f)
           /\ ParsedFrom(f, c._curr_blocks, BlockAt(f, r._compressed_pos))

\* C17: swap and reset.  When read_next_compressed_chunk returns, called by
\* the constructor or on any reader with any requested size, the previous
\* group is the old current group, unchanged, and the current group is the
\* other one, holding only the blocks parsed in this call, with read_pos 0,
\* is_decompressed false, and the single 0 in both offset tables when no block
\* was parsed.
C17_SwapAndReset ==
  /\ rd.status = "none" =>
        ReloadedFrom(file,
                     reader_members(source._virtual_begin, source._virtual_end),
                     read_next_compressed_chunk(file,
                       reader_members(source._virtual_begin, source._virtual_end),
                       chunk_load_size))
  /\ rd.status = "ok" =>
        \A n \in ReqSizes : ReloadedFrom(file, rd, read_next_compressed_chunk(file, rd, n))

\* skip_bytes left a group that was decompressed and read from as the previous
\* group and parsed blocks into the other one, which is not decompressed
C17_Witness ==
  /\ last.op = "skip_bytes" /\ rd.status = "ok"
  /\ num_blocks(rd._prev_blocks) > 0
  /\ rd._prev_blocks.is_decompressed
  /\ num_blocks(rd._curr_blocks) > 0
  /\ FreshGroup([rd._curr_blocks EXCEPT !.read_pos = 0])
  /\ rd._curr_blocks.id = 2


\* the reader c as read_next_compressed_chunk(requested_size) returned it: the
\* loop stopped for one of its three reasons, and not later than it had to
StoppedAt(c, requested_size) ==
  c.status = "ok" =>
     /\ \/ decompressed_size(c._curr_blocks) >= requested_size
        \/ c._data_stream.eof
        \/ c._compressed_pos > c._compressed_end
     /\ num_blocks(c._curr_blocks) > 0 =>
           c._curr_blocks.h_decompressed_offsets[num_blocks(c._curr_blocks)] < requested_size

\* C18: accumulation stop condition.  When read_next_compressed_chunk returns,
\* called by the constructor or on any reader with any requested size, the
\* current group's decompressed_size() is at least the requested size, or the
\* stream is at its end, or _compressed_pos has passed _compressed_end; and
\* the group without its last block has a decompressed_size() below the
\* requested size.
C18_StopCondition ==
  /\ rd.status = "none" =>
        StoppedAt(read_next_compressed_chunk(file,
                    reader_members(source._virtual_begin, source._virtual_end),
                    chunk_load_size),
                  chunk_load_size)
  /\ rd.status = "ok" =>
        \A n \in ReqSizes : StoppedAt(read_next_compressed_chunk(file, rd, n), n)

\* the constructor parsed two blocks for chunk_load_size bytes: the first
\* alone was not enough, and neither the end of the file nor of the range
\* was met
C18_Witness ==
  /\ Constructed /\ rd.status = "ok"
  /\ num_blocks(rd._curr_blocks) = 2
  /\ rd._curr_blocks.h_decompressed_offsets[2] < chunk_load_size
  /\ decompressed_size(rd._curr_blocks) >= chunk_load_size
  /\ ~rd._data_stream.eof
  /\ ~(rd._compressed_pos > rd._compressed_end)


\* the group of the reader r that is the object with the given id
GroupOf(r, id) == IF r._prev_blocks.id = id THEN r._prev_blocks ELSE r._curr_blocks

\* from r to c nothing was issued on the device stream and no group was
\* decompressed: the stream lost completed operations at most, and a group
\* that is decompressed in c was so in r, by the same backend calls
NoDeviceWork(r, c) ==
  /\ \E k \in 0..Len(r.stream) : c.stream = Drop(r.stream, k)
  /\ \A h \in Groups :
        c[h].is_decompressed =>
           /\ GroupOf(r, c[h].id).is_decompressed
           /\ c[h].backend_calls = GroupOf(r, c[h].id).backend_calls

\* the constructor issued nothing and decompressed nothing
LazyConstruction ==
  Constructed =>
     /\ rd.stream = <<>>
     /\ \A g \in Groups : ~rd[g].is_decompressed /\ rd[g].backend_calls = 0

\* read_next_compressed_chunk and skip_bytes, on any reader with any size,
\* issue nothing and decompress nothing
LazyReloadAndSkip ==
  rd.status = "ok" =>
     \A n \in ReqSizes :
        /\ NoDeviceWork(rd, read_next_compressed_chunk(file, rd, n))
        /\ NoDeviceWork(rd, skip_bytes(file, rd, n))

\* a get_next_chunk served from the current group alone parses no block and
\* leaves the previous group as it was
SingleGroupGet ==
  rd.status = "ok" =>
     \A n \in ReqSizes :
        n <= remaining_size(rd._curr_blocks) =>
           \A c \in {get_next_chunk(file, rd, n).rd} :
              /\ c._prev_blocks = rd._prev_blocks
              /\ c._data_stream = rd._data_stream
              /\ c._compressed_pos = rd._compressed_pos
              /\ c._curr_blocks.h_compressed_offsets = rd._curr_blocks.h_compressed_offsets
              /\ c._curr_blocks.h_decompressed_offsets = rd._curr_blocks.h_decompressed_offsets
              /\ c._curr_blocks.h_compressed_blocks = rd._curr_blocks.h_compressed_blocks

\* all bytes of the group b were consumed and it was never decompressed: with
\* a range that begins at a block start, skip_bytes consumed them
SkippedGroup(b) ==
  /\ source._virtual_begin % LocalRange = 0
  /\ ~b.is_decompressed
  /\ b.available_decompressed_size > 0
  /\ b.read_pos = b.available_decompressed_size

\* the group b, skipped as a whole, is in the reader c with the same blocks
\* and is still not decompressed
StaysCompressed(b, c) ==
  \A h \in Groups :
     (/\ c[h].id = b.id
      /\ c[h].h_compressed_offsets = b.h_compressed_offsets
      /\ c[h].h_compressed_blocks = b.h_compressed_blocks) => ~c[h].is_decompressed

\* a group that was skipped as a whole is not decompressed by any later call
SkippedNeverDecompressed ==
  rd.status = "ok" =>
     \A g \in Groups :
        SkippedGroup(rd[g]) =>
           \A n \in ReqSizes :
              /\ StaysCompressed(rd[g], get_next_chunk(file, rd, n).rd)
              /\ StaysCompressed(rd[g], skip_bytes(file, rd, n))

RECURSIVE SizesFrom(_, _, _)
\* the sum of header.block_size, as read_header returns it, over n blocks of
\* the file from block k on
SizesFrom(f, k, n) ==
  IF n = 0 THEN 0
  ELSE read_header(f, BlockStart(f, k)).block_size + SizesFrom(f, k + 1, n - 1)

\* c is the reader r after read_next_compressed_chunk returned: past
\* _compressed_end it parsed nothing; _compressed_pos grew by the block_size
\* of each block parsed, each between 1 and 65536
AdvancedBy(f, r, c) ==
  c.status = "ok" =>
     /\ r._compressed_pos > r._compressed_end =>
           /\ num_blocks(c._curr_blocks) = 0
           /\ c._data_stream.pos = r._data_stream.pos
     /\ num_blocks(c._curr_blocks) = 0 => c._compressed_pos = r._compressed_pos
     /\ num_blocks(c._curr_blocks) > 0 =>
           /\ BlockAt(f, r._data_stream.pos) > 0
           /\ c._compressed_pos = r._compressed_pos
                + SizesFrom(f, BlockAt(f, r._data_stream.pos), num_blocks(c._curr_blocks))
           /\ \A j \in 1..num_blocks(c._curr_blocks) :
                 read_header(f, BlockStart(f, BlockAt(f, r._data_stream.pos) + j - 1)).block_size
                   \in 1..U16

\* C20: the file-scan cursor.  _compressed_pos never decreases: the
\* constructor, get_next_chunk and skip_bytes leave it where
\* read_next_compressed_chunk left it, a call that does not reload leaves it
\* unchanged, and read_next_compressed_chunk adds header.block_size, a value
\* in 1..65536, for each block it parses and parses nothing once
\* _compressed_pos > _compressed_end.
C20_CursorMonotone ==
  /\ rd.status = "none" =>
        /\ AdvancedBy(file,
                      reader_members(source._virtual_begin, source._virtual_end),
                      read_next_compressed_chunk(file,
                        reader_members(source._virtual_begin, source._virtual_end),
                        chunk_load_size))
        /\ bgzip_data_chunk_reader(file, source._virtual_begin,
                                   source._virtual_end)._compressed_pos
             = read_next_compressed_chunk(file,
                 reader_members(source._virtual_begin, source._virtual_end),
                 chunk_load_size)._compressed_pos
  /\ rd.status = "ok" =>
        \A n \in ReqSizes :
           /\ AdvancedBy(file, rd, read_next_compressed_chunk(file, rd, n))
           /\ get_next_chunk(file, rd, n).rd._compressed_pos =
                IF n <= remaining_size(rd._curr_blocks)
                THEN rd._compressed_pos
                ELSE read_next_compressed_chunk(file, rd, n)._compressed_pos
           /\ skip_bytes(file, rd, n)._compressed_pos >= rd._compressed_pos
           /\ n <= remaining_size(rd._curr_blocks) =>
                 skip_bytes(file, rd, n)._compressed_pos = rd._compressed_pos

\* a get_next_chunk reloaded with the cursor past _compressed_end and blocks
\* left in the file: no block was parsed and the cursor stayed
C20_Witness ==
  /\ last.op = "get_next_chunk" /\ last.cross /\ rd.status = "ok"
  /\ rd._compressed_pos > rd._compressed_end
  /\ rd._compressed_pos < FileSize(file)
  /\ rd._data_stream.pos = rd._compressed_pos
  /\ num_blocks(rd._curr_blocks) = 0
  /\ num_blocks(rd._prev_blocks) > 0


\* subfield i of the block b is a foreign one, met by a scan from the start of
\* the extra region, whose head lies in the region and whose declared size
\* exceeds the bytes that the region has left
OverrunAt(b, i) ==
  /\ \A j \in 1..i : b.extra[j].id # "BC"
  /\ ExtraBytes(SubSeq(b.extra, 1, i - 1)) + SubfieldHead <= b.xlen
  /\ ExtraBytes(SubSeq(b.extra, 1, i)) > b.xlen

Overruns(b) == b.magic /\ \E i \in 1..Len(b.extra) : OverrunAt(b, i)

\* the same, with a declared size that takes extra_offset + 4 + subfield_size
\* beyond 65535
OverrunsWide(b) ==
  b.magic /\ \E i \in 1..Len(b.extra) :
                OverrunAt(b, i) /\ ExtraBytes(SubSeq(b.extra, 1, i)) >= U16

\* the stream, which started at begin_block, went into a block with such a
\* subfield: read_header was called on it
ParsedOverrun ==
  /\ rd.status # "none"
  /\ \E k \in 1..Len(file) :
       /\ Overruns(file[k])
       /\ begin_block <= BlockStart(file, k)
       /\ BlockStart(file, k) < rd._data_stream.pos

\* the same for a block whose subfield stays below the 16-bit range
ParsedNarrowOverrun ==
  /\ rd.status # "none"
  /\ \E k \in 1..Len(file) :
       /\ Overruns(file[k]) /\ ~OverrunsWide(file[k])
       /\ begin_block <= BlockStart(file, k)
       /\ BlockStart(file, k) < rd._data_stream.pos

\* read_header fails with a format error on an overrun that does not reach the
\* 16-bit range
NarrowOverrunFails == ParsedNarrowOverrun => rd.status = "format_error"

\* C21: extra subfield accounting.  When read_header was called on a block
\* with a foreign subfield that declares more bytes than the extra region has
\* left, whatever the declared size, beyond the 16-bit range of extra_offset
\* included, it failed with a format error: the operation that called it
\* ended with a format error and no header was returned.
C21_ExtraAccounting == ParsedOverrun => rd.status = "format_error"


\* a byte of a returned chunk that was read beyond the end of a group's
\* decompressed buffer
PastBuffer(chunk) == \E i \in 1..Len(chunk) : chunk[i] = -1

\* C22: available bytes are decompressed bytes.  Whatever virtual_end was
\* given, a local end offset beyond the decompressed size of the block at the
\* compressed end offset included, each group has available_decompressed_size
\* <= decompressed_size(), and no chunk returned by get_next_chunk holds a
\* byte read beyond the end of a group's decompressed buffer.
C22_AvailableBounded ==
  rd.status # "none" =>
     /\ \A g \in Groups : rd[g].available_decompressed_size <= decompressed_size(rd[g])
     /\ Got => ~PastBuffer(last.chunk)

\* the same for the ranges whose local end offset lies inside the block
ValidEndBounded ==
  ValidEnd(file, source._virtual_end) => C22_AvailableBounded


\* read_header, read_block and read_footer on block k of the file: the header
\* ends behind the extra region, and the footer ends header.block_size bytes
\* behind the start of the block, which is the sum of the parts
ParsedBlock(f, k, header) ==
  /\ header.status = "ok"
  /\ header.pos = BlockStart(f, k) + FixedHeader + header.extra_length
  /\ header.block_size = FixedHeader + header.extra_length + data_size(header) + FooterSize
  /\ read_footer(f, header.pos + data_size(header)).status = "ok"
  /\ read_footer(f, header.pos + data_size(header)).pos = BlockStart(f, k) + header.block_size

\* C23: a block parse advances the stream by block_size.  For every block of
\* the file, wherever its BC subfield sits among the extra subfields,
\* read_header, read_block and read_footer together advance the stream by
\* header.block_size = 12 + extra_length + data_size + 8 bytes; and after the
\* constructor and every call that reloads, _compressed_pos is the stream
\* position, which is the start of the next block or the end of the file.
C23_BlockAdvance ==
  /\ \A k \in 1..Len(file) : ParsedBlock(file, k, read_header(file, BlockStart(file, k)))
  /\ rd.status = "ok" =>
        /\ rd._compressed_pos = rd._data_stream.pos
        /\ rd._data_stream.pos = FileSize(file) \/ BlockAt(file, rd._data_stream.pos) > 0

\* the reader parsed a block whose BC subfield lies between foreign subfields,
\* and then the block behind it
C23_Witness ==
  /\ rd.status = "ok"
  /\ \E k \in 1..(Len(file) - 1) :
        /\ Head(file[k].extra).id # "BC"
        /\ Last(file[k].extra).id # "BC"
        /\ begin_block <= BlockStart(file, k)
        /\ rd._compressed_pos >= BlockStart(file, k + 1) + PhysSize(file[k + 1])


\* what the call that is about to return does to the reader it found, taken
\* as a whole
Whole(c) ==
  IF c.op = "create_reader"
  THEN bgzip_data_chunk_reader(file, source._virtual_begin, source._virtual_end)
  ELSE IF c.op = "get_next_chunk" THEN get_next_chunk(file, c.from, c.arg).rd
  ELSE skip_bytes(file, c.from, c.arg)

\* a call that is about to return left the reader as the call taken as a
\* whole leaves it
StepsAgree == call.pc = "done" => rd = Whole(call)

\* C24: termination.  Over the finite files of well-formed blocks, blocks of
\* decompressed size 0 included, with every request size, a call of the
\* constructor, get_next_chunk or skip_bytes that is in progress returns (or
\* throws), and it parses no more blocks than the file has.
C24_Termination ==
  /\ [](call.parses <= Len(file))
  /\ (call.pc # "idle") ~> (call.pc = "idle")

\* a skip_bytes returned after it went through its loop more than once, over
\* a block of decompressed size 0
C24_Witness ==
  /\ call.pc = "idle" /\ call.op = "skip_bytes" /\ rd.status = "ok"
  /\ call.parses >= 3
  /\ \E k \in 1..Len(file) :
        /\ file[k].isize = 0
        /\ call.from._compressed_pos <= BlockStart(file, k)
        /\ BlockStart(file, k) < rd._compressed_pos

=============================================================================
